---------------------------- MODULE Spec2Model ----------------------------
(***************************************************************************)
(* Model of pip-services3-kafka-gox: KafkaConnectionResolver               *)
(* (connect/KafkaConnectionResolver.go) and KafkaMessageQueueFactory       *)
(* (package build).                                                        *)
(*                                                                         *)
(* The sub-resolvers (ConnectionResolver, CredentialResolver) are opaque:  *)
(* ResolveAll and Lookup either fail with an error of their own or yield   *)
(* what Configure stored.  The accessors of ConnectionParams read the keys *)
(* uri, protocol, host and port of the parameter map.                      *)
(*                                                                         *)
(* Strings are sequences of one-character strings, so that strings.Index,  *)
(* slicing, concatenation, strconv.Itoa and integer parsing are computed   *)
(* and not assumed.  A ConfigParams / ConnectionParams / CredentialParams  *)
(* is a function from a finite set of keys to strings.  A Go pointer is    *)
(* NilPtr or Ref(v).                                                       *)
(***************************************************************************)
EXTENDS Integers, Sequences, FiniteSets, TLC

VARIABLES
    connections,    \* what ConnectionResolver.ResolveAll yields (set by Configure)
    credential,     \* what CredentialResolver.Lookup yields (set by Configure)
    correlationId,  \* the caller's correlation id
    pc,             \* position of the running Resolve call
    conns,          \* Resolve's local `connections`
    cred,           \* Resolve's local `credential`
    idx,            \* Resolve's validation loop index (0-based, next to validate)
    log,            \* sub-resolver calls, validations and compositions Resolve made
    resolved,       \* what Resolve returned (NilPtr while it has not returned)
    composed,       \* what Compose returned (NilPtr while it was not called)
    arg,            \* input of the pure-function specifications
    ret,            \* output of the pure-function specifications
    factory,        \* KafkaMessageQueueFactory: Config and References
    canResult,      \* what the last CanCreate returned
    created         \* what the last Create returned

vars == <<connections, credential, correlationId, pc, conns, cred, idx, log,
          resolved, composed, arg, ret, factory, canResult, created>>

resolverVars == <<connections, credential, correlationId, pc, conns, cred,
                  idx, log, resolved, composed>>
pureVars == <<arg, ret>>
factoryVars == <<factory, canResult, created>>

-----------------------------------------------------------------------------
(* Bounds *)

\* longest connection list Configure / a caller of Compose supplies
MaxConns == 3
\* longest uri string of the uri-stripping specification
MaxUriLen == 6

-----------------------------------------------------------------------------
(* Go pointers *)

NilPtr == [nil |-> TRUE]
Ref(v) == [nil |-> FALSE, val |-> v]
IsNil(p) == p.nil

-----------------------------------------------------------------------------
(* Strings *)

EmptyStr == <<>>

Digits == <<"0", "1", "2", "3", "4", "5", "6", "7", "8", "9">>

IsDigit(ch) == \E d \in 1..10 : Digits[d] = ch

DigitVal(ch) == (CHOOSE d \in 1..10 : Digits[d] = ch) - 1

\* strconv.Itoa for n >= 0
RECURSIVE Itoa(_)
Itoa(n) == IF n < 10 THEN <<Digits[n + 1]>>
           ELSE Itoa(n \div 10) \o <<Digits[(n % 10) + 1]>>

\* decimal value of a string of digits
RECURSIVE Atoi(_)
Atoi(s) == IF Len(s) = 0 THEN 0
           ELSE 10 * Atoi(SubSeq(s, 1, Len(s) - 1)) + DigitVal(s[Len(s)])

IsNumber(s) == Len(s) > 0 /\ \A i \in 1..Len(s) : IsDigit(s[i])

\* strings.Index(s, sub): 0-based position of the first occurrence, or -1
Index(s, sub) ==
    LET hits == {p \in 0..(Len(s) - Len(sub)) :
                    SubSeq(s, p + 1, p + Len(sub)) = sub}
    IN IF hits = {} THEN -1
       ELSE CHOOSE p \in hits : \A q \in hits : p <= q

\* s[from:]
SliceFrom(s, from) == SubSeq(s, from + 1, Len(s))
\* s[:to]
SliceTo(s, to) == SubSeq(s, 1, to)

-----------------------------------------------------------------------------
(* ConfigParams *)

EmptyParams == [k \in {} |-> EmptyStr]

\* GetAsString: "" for a missing key
GetAsString(m, key) == IF key \in DOMAIN m THEN m[key] ELSE EmptyStr

\* mutant: the defaults overwrite the keys already in options
SetDefaultsOverwriting(options, defaults) ==
    [k \in (DOMAIN options) \cup (DOMAIN defaults) |->
        IF k \in DOMAIN defaults THEN defaults[k] ELSE options[k]]

\* options.SetDefaults(defaults): keys already in options keep their value
SetDefaults(options, defaults) ==
    [k \in (DOMAIN options) \cup (DOMAIN defaults) |->
        IF k \in DOMAIN options THEN options[k] ELSE defaults[k]]

\* options.SetAsObject(key, value)
SetAsObject(options, key, value) ==
    [k \in (DOMAIN options) \cup {key} |->
        IF k = key THEN value ELSE options[k]]

\* connection.Uri()
Uri(connection) == GetAsString(connection, "uri")

\* connection.Host()
Host(connection) == GetAsString(connection, "host")

\* connection.ProtocolWithDefault(d): d when no protocol is set
ProtocolWithDefault(connection, defaultValue) ==
    IF "protocol" \in DOMAIN connection THEN connection["protocol"]
    ELSE defaultValue

\* connection.PortWithDefault(d): d when no port is set or it is no number
PortWithDefault(connection, defaultValue) ==
    IF "port" \in DOMAIN connection /\ IsNumber(connection["port"])
    THEN Atoi(connection["port"])
    ELSE defaultValue

DefaultProtocol == <<"t", "c", "p">>
DefaultPort == 9092

-----------------------------------------------------------------------------
(* Errors *)

\* cerr.NewConfigError(correlationId, code, message)
NewConfigError(id, code, message) ==
    Ref([category |-> "Misconfiguration", correlationId |-> id,
         code |-> code, message |-> message])

-----------------------------------------------------------------------------
(* KafkaConnectionResolver.validateConnection *)

\* mutant: port checked before host
validateConnectionPortFirst(id, connection) ==
    IF IsNil(connection)
    THEN NewConfigError(id, "NO_CONNECTION", <<"Kafka connection is not set">>)
    ELSE IF Uri(connection.val) # EmptyStr THEN NilPtr
    ELSE LET protocol == ProtocolWithDefault(connection.val, DefaultProtocol) IN
    IF protocol = EmptyStr
    THEN NewConfigError(id, "NO_PROTOCOL", <<"Connection protocol is not set">>)
    ELSE IF protocol # DefaultProtocol
    THEN NewConfigError(id, "UNSUPPORTED_PROTOCOL",
                        <<"The protocol ">> \o protocol \o <<" is not supported">>)
    ELSE IF PortWithDefault(connection.val, DefaultPort) = 0
    THEN NewConfigError(id, "NO_PORT", <<"Connection port is not set">>)
    ELSE IF Host(connection.val) = EmptyStr
    THEN NewConfigError(id, "NO_HOST", <<"Connection host is not set">>)
    ELSE NilPtr

validateConnection(id, connection) ==
    IF IsNil(connection)
    THEN NewConfigError(id, "NO_CONNECTION", <<"Kafka connection is not set">>)
    ELSE IF Uri(connection.val) # EmptyStr THEN NilPtr
    ELSE LET protocol == ProtocolWithDefault(connection.val, DefaultProtocol) IN
    IF protocol = EmptyStr
    THEN NewConfigError(id, "NO_PROTOCOL", <<"Connection protocol is not set">>)
    ELSE IF protocol # DefaultProtocol
    THEN NewConfigError(id, "UNSUPPORTED_PROTOCOL",
                        <<"The protocol ">> \o protocol \o <<" is not supported">>)
    ELSE IF Host(connection.val) = EmptyStr
    THEN NewConfigError(id, "NO_HOST", <<"Connection host is not set">>)
    ELSE IF PortWithDefault(connection.val, DefaultPort) = 0
    THEN NewConfigError(id, "NO_PORT", <<"Connection port is not set">>)
    ELSE NilPtr

-----------------------------------------------------------------------------
(* KafkaConnectionResolver.composeOptions *)

\* lines 123-130: the scheme and the query are cut off the uri
StripUri(u) ==
    LET pos1 == Index(u, <<":", "/", "/">>)
        u1 == IF pos1 > 0 THEN SliceFrom(u, pos1 + 3) ELSE u
        pos2 == Index(u1, <<"?">>)
    IN IF pos2 > 0 THEN SliceTo(u1, pos2) ELSE u1

\* mutant: the separator is written before every token, the first included
composeStepLeadingSeparator(st, connection) ==
    LET options == SetDefaults(st.options, connection.val)
        uri == Uri(connection.val)
    IN IF st.globalUri # EmptyStr
       THEN [st EXCEPT !.options = options]
       ELSE IF uri # EmptyStr
       THEN [st EXCEPT !.options = options, !.globalUri = StripUri(uri)]
       ELSE [st EXCEPT !.options = options,
                       !.uriBuilder =
                           st.uriBuilder \o <<",", " ">>
                           \o Host(connection.val) \o <<":">>
                           \o Itoa(PortWithDefault(connection.val, DefaultPort))]

\* one iteration of the loop over connections (lines 114-145)
composeStep(st, connection) ==
    LET options == SetDefaults(st.options, connection.val)
        uri == Uri(connection.val)
    IN IF st.globalUri # EmptyStr
       THEN [st EXCEPT !.options = options]
       ELSE IF uri # EmptyStr
       THEN [st EXCEPT !.options = options, !.globalUri = StripUri(uri)]
       ELSE [st EXCEPT !.options = options,
                       !.uriBuilder =
                           (IF Len(st.uriBuilder) > 0
                            THEN st.uriBuilder \o <<",", " ">>
                            ELSE st.uriBuilder)
                           \o Host(connection.val) \o <<":">>
                           \o Itoa(PortWithDefault(connection.val, DefaultPort))]

RECURSIVE composeLoop(_, _)
composeLoop(st, list) ==
    IF Len(list) = 0 THEN st
    ELSE composeLoop(composeStep(st, Head(list)), Tail(list))

composeOptions(list, credentialPtr) ==
    LET credentialParams == IF IsNil(credentialPtr) THEN EmptyParams
                            ELSE credentialPtr.val
        st == composeLoop([options |-> SetDefaults(EmptyParams, credentialParams),
                           globalUri |-> EmptyStr,
                           uriBuilder |-> EmptyStr], list)
    IN IF st.globalUri # EmptyStr
       THEN SetAsObject(st.options, "uri", st.globalUri)
       ELSE SetAsObject(st.options, "uri", st.uriBuilder)

-----------------------------------------------------------------------------
(* KafkaConnectionResolver.Compose *)

\* a returned pair (options, err)
Return(options, err) == [options |-> options, err |-> err]

\* mutant: the loop does not return at the first error; the last one is kept
RECURSIVE validateLoopKeepGoing(_, _, _)
validateLoopKeepGoing(id, list, i) ==
    IF i > Len(list) THEN [err |-> NilPtr, validated |-> Len(list)]
    ELSE LET e == validateConnection(id, list[i])
             rest == validateLoopKeepGoing(id, list, i + 1)
         IN IF ~IsNil(rest.err) \/ IsNil(e) THEN rest
            ELSE [err |-> e, validated |-> Len(list)]

\* the validation loop (lines 196-201): the first error and the number of
\* connections validated until then
RECURSIVE validateLoop(_, _, _)
validateLoop(id, list, i) ==
    IF i > Len(list) THEN [err |-> NilPtr, validated |-> Len(list)]
    ELSE LET e == validateConnection(id, list[i])
         IN IF ~IsNil(e) THEN [err |-> e, validated |-> i]
            ELSE validateLoop(id, list, i + 1)

\* the returned pair, with the number of connections validated and the
\* number of composeOptions runs
Compose(id, list, credentialPtr) ==
    LET v == validateLoop(id, list, 1)
    IN IF ~IsNil(v.err)
       THEN [ret |-> Return(NilPtr, v.err),
             validated |-> v.validated, composeRuns |-> 0]
       ELSE [ret |-> Return(Ref(composeOptions(list, credentialPtr)), NilPtr),
             validated |-> v.validated, composeRuns |-> 1]

-----------------------------------------------------------------------------
(* Inputs of the resolver specification *)

K1 == <<"k", "1">>
K2 == <<"k", "2">>
P93 == <<"9", "3">>
P0 == <<"0">>
Udp == <<"u", "d", "p">>
UriFull == <<"t", ":", "/", "/", "b", "?", "x">>
UriSchemeOnly == <<"t", ":", "/", "/">>
UserU == <<"u">>
UserV == <<"v">>
PassP == <<"p">>

ConnHostPort == Ref(("host" :> K1) @@ ("port" :> P93))
ConnHostOnly == Ref(("host" :> K2) @@ ("username" :> UserV))
ConnUri == Ref(("uri" :> UriFull) @@ ("host" :> K2) @@ ("port" :> P0))
ConnUriSchemeOnly == Ref(("uri" :> UriSchemeOnly))
ConnUdp == Ref(("protocol" :> Udp) @@ ("host" :> K1) @@ ("port" :> P93))
ConnPortZero == Ref(("host" :> K1) @@ ("port" :> P0))

ConnSet == {NilPtr, ConnHostPort, ConnHostOnly, ConnUri, ConnUriSchemeOnly,
            ConnUdp, ConnPortZero}

CredSet == {NilPtr, Ref(("username" :> UserU) @@ ("password" :> PassP))}

ConnLists == UNION {[1..n -> ConnSet] : n \in 0..MaxConns}

\* correlation ids validateConnection is called with on its own
CorrelationIds == {"123", "abc"}
\* the correlation id of the caller of Resolve and Compose
CallerCorrelationId == "abc"

\* errors of the sub-resolvers (discovery / credential store failures)
ResolveAllErrors ==
    {Ref([category |-> "Misconfiguration", correlationId |-> "123",
          code |-> "CANNOT_RESOLVE", message |-> <<"discovery failed">>])}
LookupErrors ==
    {Ref([category |-> "Internal", correlationId |-> "123",
          code |-> "STORE_FAILED", message |-> <<"credential store failed">>])}

-----------------------------------------------------------------------------
(* The resolver: NewKafkaConnectionResolver, Configure, Resolve, Compose *)

\* NewKafkaConnectionResolver: empty sub-resolvers; nothing was called yet
NewKafkaConnectionResolver ==
    /\ connections = <<>>
    /\ credential = NilPtr
    /\ correlationId = CallerCorrelationId
    /\ pc = "idle"
    /\ conns = <<>>
    /\ cred = NilPtr
    /\ idx = 0
    /\ log = <<>>
    /\ resolved = NilPtr
    /\ composed = NilPtr

\* Configure: the configuration is forwarded to both sub-resolvers; it
\* belongs to the configuration phase, before any resolution
Configure ==
    /\ pc = "idle" /\ IsNil(resolved) /\ IsNil(composed)
    /\ \E list \in ConnLists, c \in CredSet :
          /\ connections' = list
          /\ credential' = c
    /\ UNCHANGED <<correlationId, pc, conns, cred, idx, log, resolved,
                   composed>>

\* Compose(correlationId, connections, credential) with the caller's values
ComposeCall ==
    /\ pc \in {"idle", "done"}
    /\ IsNil(composed)
    /\ composed' = Ref(Compose(correlationId, connections, credential))
    /\ UNCHANGED <<connections, credential, correlationId, pc, conns, cred,
                   idx, log, resolved>>

\* Resolve, lines 164-167: ResolveAll on the connection sub-resolver
ResolveAll ==
    /\ pc = "idle"
    /\ \E e \in {NilPtr} \cup ResolveAllErrors :
          /\ log' = Append(log, [call |-> "ResolveAll", err |-> e])
          /\ IF ~IsNil(e)
             THEN /\ resolved' = Ref(Return(NilPtr, e))
                  /\ pc' = "done"
                  /\ UNCHANGED conns
             ELSE /\ conns' = connections
                  /\ pc' = "lookup"
                  /\ UNCHANGED resolved
    /\ UNCHANGED <<connections, credential, correlationId, cred, idx,
                   composed>>

\* mutant: a Lookup error is dropped and validation goes on
LookupIgnoringError ==
    /\ pc = "lookup"
    /\ \E e \in {NilPtr} \cup LookupErrors :
          /\ log' = Append(log, [call |-> "Lookup", err |-> e])
          /\ cred' = IF IsNil(e) THEN credential ELSE NilPtr
          /\ pc' = "validate"
          /\ UNCHANGED resolved
    /\ UNCHANGED <<connections, credential, correlationId, conns, idx,
                   composed>>

\* Resolve, lines 169-172: Lookup on the credential sub-resolver
Lookup ==
    /\ pc = "lookup"
    /\ \E e \in {NilPtr} \cup LookupErrors :
          /\ log' = Append(log, [call |-> "Lookup", err |-> e])
          /\ IF ~IsNil(e)
             THEN /\ resolved' = Ref(Return(NilPtr, e))
                  /\ pc' = "done"
                  /\ UNCHANGED cred
             ELSE /\ cred' = credential
                  /\ pc' = "validate"
                  /\ UNCHANGED resolved
    /\ UNCHANGED <<connections, credential, correlationId, conns, idx,
                   composed>>

\* Resolve, lines 175-180: one iteration of the validation loop
Validate ==
    /\ pc = "validate"
    /\ idx < Len(conns)
    /\ LET e == validateConnection(correlationId, conns[idx + 1])
       IN /\ log' = Append(log, [call |-> "validate", err |-> e])
          /\ IF ~IsNil(e)
             THEN /\ resolved' = Ref(Return(NilPtr, e))
                  /\ pc' = "done"
                  /\ UNCHANGED idx
             ELSE /\ idx' = idx + 1
                  /\ UNCHANGED <<pc, resolved>>
    /\ UNCHANGED <<connections, credential, correlationId, conns, cred,
                   composed>>

\* mutant: Resolve composes without the credential it looked up
ResolveComposeWithoutCredential ==
    /\ pc = "validate"
    /\ idx = Len(conns)
    /\ log' = Append(log, [call |-> "compose", err |-> NilPtr])
    /\ resolved' = Ref(Return(Ref(composeOptions(conns, NilPtr)), NilPtr))
    /\ pc' = "done"
    /\ UNCHANGED <<connections, credential, correlationId, conns, cred, idx,
                   composed>>

\* Resolve, lines 182-183: the loop is over; compose and return
ResolveCompose ==
    /\ pc = "validate"
    /\ idx = Len(conns)
    /\ log' = Append(log, [call |-> "compose", err |-> NilPtr])
    /\ resolved' = Ref(Return(Ref(composeOptions(conns, cred)), NilPtr))
    /\ pc' = "done"
    /\ UNCHANGED <<connections, credential, correlationId, conns, cred, idx,
                   composed>>

Resolve == ResolveAll \/ Lookup \/ Validate \/ ResolveCompose

\* the pure-function and factory variables while they are not used
PureUnused == arg = NilPtr /\ ret = NilPtr
FactoryUnused == factory = NilPtr /\ canResult = NilPtr /\ created = NilPtr
\* the resolver variables while they are not used
ResolverUnused ==
    /\ connections = <<>> /\ credential = NilPtr /\ correlationId = "123"
    /\ pc = "idle" /\ conns = <<>> /\ cred = NilPtr /\ idx = 0
    /\ log = <<>> /\ resolved = NilPtr /\ composed = NilPtr

Init == NewKafkaConnectionResolver /\ PureUnused /\ FactoryUnused

Next ==
    \/ Configure /\ UNCHANGED <<pureVars, factoryVars>>
    \/ ComposeCall /\ UNCHANGED <<pureVars, factoryVars>>
    \/ ResolveAll /\ UNCHANGED <<pureVars, factoryVars>>
    \/ Lookup /\ UNCHANGED <<pureVars, factoryVars>>
    \/ Validate /\ UNCHANGED <<pureVars, factoryVars>>
    \/ ResolveCompose /\ UNCHANGED <<pureVars, factoryVars>>

Spec == Init /\ [][Next]_vars

-----------------------------------------------------------------------------
(* validateConnection on every combination of the fields it reads *)

UriChoices == {EmptyParams, "uri" :> EmptyStr, "uri" :> <<"c">>}
ProtocolChoices == {EmptyParams, "protocol" :> EmptyStr,
                    "protocol" :> DefaultProtocol, "protocol" :> Udp}
HostChoices == {EmptyParams, "host" :> EmptyStr, "host" :> K1}
PortChoices == {EmptyParams, "port" :> P0, "port" :> P93}

ValidateConns ==
    {NilPtr} \cup
    {Ref(u @@ p @@ h @@ q) : u \in UriChoices, p \in ProtocolChoices,
                             h \in HostChoices, q \in PortChoices}

InitValidate ==
    /\ arg \in {[id |-> id, connection |-> c] :
                    id \in CorrelationIds, c \in ValidateConns}
    /\ ret = NilPtr
    /\ ResolverUnused /\ FactoryUnused

ValidateCall ==
    /\ IsNil(ret)
    /\ ret' = Ref(validateConnection(arg.id, arg.connection))
    /\ UNCHANGED <<arg, resolverVars, factoryVars>>

NextValidate == ValidateCall

SpecValidate == InitValidate /\ [][NextValidate]_vars

-----------------------------------------------------------------------------
(* composeOptions on one connection that carries a uri *)

UriAlphabet == {"a", ":", "/", "?"}

UriStrings == UNION {[1..n -> UriAlphabet] : n \in 1..MaxUriLen}

InitUri ==
    /\ arg \in UriStrings
    /\ ret = NilPtr
    /\ ResolverUnused /\ FactoryUnused

ComposeUriCall ==
    /\ IsNil(ret)
    /\ ret' = Ref(composeOptions(<<Ref("uri" :> arg)>>, NilPtr))
    /\ UNCHANGED <<arg, resolverVars, factoryVars>>

NextUri == ComposeUriCall

SpecUri == InitUri /\ [][NextUri]_vars

-----------------------------------------------------------------------------
(* Vocabulary of the properties *)

\* Compose has returned / Resolve has returned after both lookups succeeded
ComposeReturned == ~IsNil(composed)
ResolveReturned == pc = "done" /\ ~IsNil(resolved)
LookupsSucceeded ==
    Len(log) >= 2 /\ IsNil(log[1].err) /\ IsNil(log[2].err)

\* the indices of the connections that fail validation
Failing(id, list) ==
    {i \in 1..Len(list) : ~IsNil(validateConnection(id, list[i]))}

Min(S) == CHOOSE x \in S : \A y \in S : x <= y

\* the number of log entries of one kind
Count(call) == Cardinality({i \in 1..Len(log) : log[i].call = call})

HasUri(connection) ==
    ~IsNil(connection) /\ "uri" \in DOMAIN connection.val
    /\ connection.val["uri"] # <<>>

-----------------------------------------------------------------------------
(* C1 *)

\* the returned pair r is right for the call (id, list)
OutcomeOf(r, id, list) ==
    LET fails == Failing(id, list)
    IN /\ IsNil(r.options) # IsNil(r.err)
       /\ (~IsNil(r.err)) <=> (fails # {})
       /\ fails # {} => r.err = validateConnection(id, list[Min(fails)])

\* C1: Compose, and Resolve once its lookups succeeded, return either
\* options or an error, never both and never neither; an error exactly when
\* some connection fails validateConnection, and then the error of the
\* lowest-index failing connection; the connections after it are not
\* validated and composeOptions does not run.
C1_ErrorXorOptions ==
    /\ ComposeReturned =>
          LET fails == Failing(correlationId, connections)
          IN /\ OutcomeOf(composed.val.ret, correlationId, connections)
             /\ composed.val.validated =
                   (IF fails = {} THEN Len(connections) ELSE Min(fails))
             /\ composed.val.composeRuns = (IF fails = {} THEN 1 ELSE 0)
    /\ (ResolveReturned /\ LookupsSucceeded) =>
          LET fails == Failing(correlationId, conns)
          IN /\ OutcomeOf(resolved.val, correlationId, conns)
             /\ Count("validate") =
                   (IF fails = {} THEN Len(conns) ELSE Min(fails))
             /\ Count("compose") = (IF fails = {} THEN 1 ELSE 0)

\* two connections fail with different errors and the first one's is returned
C1_Witness ==
    /\ ComposeReturned
    /\ \E i, j \in Failing(correlationId, connections) :
          /\ i < j
          /\ validateConnection(correlationId, connections[i])
                # validateConnection(correlationId, connections[j])
          /\ composed.val.ret.err
                = validateConnection(correlationId, connections[i])
    /\ IsNil(composed.val.ret.options)

-----------------------------------------------------------------------------
(* C3 *)

NinetyNinetyTwo == <<"9", "0", "9", "2">>

\* the host:port token of one connection, an unset port written as 9092
Token(connection) ==
    (IF "host" \in DOMAIN connection.val
     THEN connection.val["host"] ELSE <<>>)
    \o <<":">> \o
    (IF "port" \in DOMAIN connection.val
     THEN connection.val["port"] ELSE NinetyNinetyTwo)

RECURSIVE JoinTokens(_)
JoinTokens(list) ==
    IF Len(list) = 0 THEN <<>>
    ELSE IF Len(list) = 1 THEN Token(list[1])
    ELSE JoinTokens(SubSeq(list, 1, Len(list) - 1))
         \o <<",", " ">> \o Token(list[Len(list)])

NoUriIn(list) == \A i \in 1..Len(list) : ~HasUri(list[i])

HostPortListOf(r, list) ==
    (IsNil(r.err) /\ NoUriIn(list)) =>
        /\ ~IsNil(r.options)
        /\ "uri" \in DOMAIN r.options.val
        /\ r.options.val["uri"] = JoinTokens(list)

\* C3: when no connection has a uri, the output uri is the host:port tokens
\* of all connections, one per connection, in list order, joined by ", ",
\* an unset port written as 9092; the empty list with a nil credential gives
\* the options {uri: ""} and no error.
C3_HostPortList ==
    /\ ComposeReturned =>
          /\ HostPortListOf(composed.val.ret, connections)
          /\ (connections = <<>> /\ IsNil(credential)) =>
                composed.val.ret = Return(Ref("uri" :> <<>>), NilPtr)
    /\ (ResolveReturned /\ LookupsSucceeded) =>
          HostPortListOf(resolved.val, conns)

\* two brokers, the second port unset
C3_Witness ==
    /\ ComposeReturned
    /\ connections = <<ConnHostPort, ConnHostOnly>>
    /\ composed.val.ret.options.val["uri"]
          = <<"k", "1", ":", "9", "3", ",", " ", "k", "2", ":", "9", "0", "9", "2">>

-----------------------------------------------------------------------------
(* C4 *)

AllUriIn(list) == Len(list) > 0 /\ \A i \in 1..Len(list) : HasUri(list[i])

\* C4: when every connection has a non-empty uri, the output uri is the
\* first connection's uri, scheme and query stripped, whatever the later
\* connections hold.
C4_FirstUriWins ==
    (ComposeReturned /\ IsNil(composed.val.ret.err) /\ AllUriIn(connections))
    => composed.val.ret.options.val["uri"]
          = StripUri(connections[1].val["uri"])

-----------------------------------------------------------------------------
(* C5 *)

\* the first connection that carries a uri
FirstUri(list) == Min({i \in 1..Len(list) : HasUri(list[i])})

MixedList(list) ==
    \E i, j \in 1..Len(list) : i < j /\ ~HasUri(list[i]) /\ HasUri(list[j])

\* C5: a successful Compose returns options with the key uri; in a mixed list
\* where a connection without uri precedes one with a uri, the host:port
\* tokens are discarded and the output uri is exactly the stripped uri.
C5_UriNeverMixed ==
    (ComposeReturned /\ IsNil(composed.val.ret.err)) =>
        /\ "uri" \in DOMAIN composed.val.ret.options.val
        /\ MixedList(connections) =>
              composed.val.ret.options.val["uri"]
                 = StripUri(connections[FirstUri(connections)].val["uri"])

-----------------------------------------------------------------------------
(* C6 *)

\* the writers of the options in priority order: credential, connection 1, ...
Writers(list, credentialPtr) ==
    <<IF IsNil(credentialPtr) THEN EmptyParams ELSE credentialPtr.val>>
    \o [i \in 1..Len(list) |-> list[i].val]

FirstWriterOf(r, list, credentialPtr) ==
    IsNil(r.err) =>
        LET w == Writers(list, credentialPtr)
            options == r.options.val
        IN /\ DOMAIN options
                 = UNION {DOMAIN w[i] : i \in 1..Len(w)} \cup {"uri"}
           /\ \A k \in (DOMAIN options) \ {"uri"} :
                 options[k] = w[Min({i \in 1..Len(w) : k \in DOMAIN w[i]})][k]

\* C6: every key but uri has the value of its first writer in the order
\* credential, connection 1, connection 2, ...; every key of the credential
\* and of every connection is in the output.
C6_FirstWriterWins ==
    /\ ComposeReturned =>
          FirstWriterOf(composed.val.ret, connections, credential)
    /\ (ResolveReturned /\ LookupsSucceeded) =>
          FirstWriterOf(resolved.val, conns, cred)

\* two brokers and a credential: host and port of the first broker, the
\* username of the credential and not the second broker's
C6_Witness ==
    /\ ComposeReturned
    /\ connections = <<ConnHostPort, ConnHostOnly>>
    /\ ~IsNil(credential)
    /\ LET options == composed.val.ret.options.val
       IN /\ options["host"] = K1 /\ options["port"] = P93
          /\ options["username"] = UserU /\ options["password"] = PassP
          /\ ConnHostOnly.val["username"] = UserV

-----------------------------------------------------------------------------
(* C7 *)

\* C7: when both sub-resolvers answer without error, Resolve returns the
\* options and the error Compose returns for the same id, list and credential.
C7_ResolveEqualsCompose ==
    (ResolveReturned /\ LookupsSucceeded /\ ComposeReturned
     /\ conns = connections /\ cred = credential)
    => resolved.val = composed.val.ret

\* both returned options for a list with a credential
C7_Witness ==
    /\ ResolveReturned /\ LookupsSucceeded /\ ComposeReturned
    /\ Len(connections) >= 2 /\ ~IsNil(credential)
    /\ conns = connections /\ cred = credential
    /\ ~IsNil(resolved.val.options)
    /\ resolved.val = composed.val.ret

-----------------------------------------------------------------------------
(* C10 *)

\* C10: Resolve calls ResolveAll, then Lookup, then validates the connections
\* in order, then composes, each once; an error of ResolveAll or of Lookup is
\* returned as it is and ends the call before any connection is validated.
C10_ResolveOrder ==
    /\ Len(log) >= 1 => log[1].call = "ResolveAll"
    /\ Len(log) >= 2 => log[2].call = "Lookup" /\ IsNil(log[1].err)
    /\ \A i \in 3..Len(log) :
          /\ IsNil(log[2].err)
          /\ log[i].call \in {"validate", "compose"}
          /\ log[i].call = "validate" => i - 2 <= Len(connections)
          /\ log[i].call = "compose" =>
                i = Len(log) /\ i = Len(connections) + 3
          /\ i < Len(log) => IsNil(log[i].err)
    /\ (Len(log) >= 1 /\ ~IsNil(log[1].err)) =>
          /\ Len(log) = 1 /\ pc = "done"
          /\ resolved = Ref(Return(NilPtr, log[1].err))
    /\ (Len(log) >= 2 /\ ~IsNil(log[2].err)) =>
          /\ Len(log) = 2 /\ pc = "done"
          /\ resolved = Ref(Return(NilPtr, log[2].err))
    /\ pc = "done" => ~IsNil(resolved)

\* the credential store failed while a connection was invalid
C10_Witness ==
    /\ pc = "done"
    /\ Len(log) = 2 /\ ~IsNil(log[2].err)
    /\ Failing(correlationId, connections) # {}
    /\ resolved.val.err \in LookupErrors

-----------------------------------------------------------------------------
(* C2 *)

\* the field of a connection as configured, "" when it is not set
Field(connection, key) ==
    IF key \in DOMAIN connection.val THEN connection.val[key] ELSE <<>>

IsSet(connection, key) == key \in DOMAIN connection.val

\* the code of a validation result
CodeOf(e) == IF IsNil(e) THEN "OK" ELSE e.val.code

\* C2: validateConnection answers by the first step that applies: nil
\* connection NO_CONNECTION; non-empty uri success; protocol (tcp when unset)
\* empty NO_PROTOCOL; protocol not tcp UNSUPPORTED_PROTOCOL; empty host
\* NO_HOST; port (9092 when unset) zero NO_PORT; otherwise success.  Every
\* error carries the caller's correlation id.
C2_ValidationOrder ==
    ~IsNil(ret) =>
        LET c == arg.connection
            code == CodeOf(ret.val)
            noUri == ~IsNil(c) /\ Field(c, "uri") = <<>>
            protocolOk == noUri /\ (~IsSet(c, "protocol")
                                    \/ Field(c, "protocol") = <<"t", "c", "p">>)
            hostOk == protocolOk /\ Field(c, "host") # <<>>
        IN /\ IsNil(c) => code = "NO_CONNECTION"
           /\ (~IsNil(c) /\ Field(c, "uri") # <<>>) => code = "OK"
           /\ (noUri /\ IsSet(c, "protocol") /\ Field(c, "protocol") = <<>>)
                 => code = "NO_PROTOCOL"
           /\ (noUri /\ Field(c, "protocol") \notin {<<>>, <<"t", "c", "p">>})
                 => code = "UNSUPPORTED_PROTOCOL"
           /\ (protocolOk /\ Field(c, "host") = <<>>) => code = "NO_HOST"
           /\ (hostOk /\ Field(c, "port") = <<"0">>) => code = "NO_PORT"
           /\ (hostOk /\ Field(c, "port") # <<"0">>) => code = "OK"
           /\ code # "OK" => ret.val.val.correlationId = arg.id
           /\ (c = Ref(("protocol" :> <<"u", "d", "p">>) @@ ("host" :> K1)
                       @@ ("port" :> P93)))
                 => code = "UNSUPPORTED_PROTOCOL"

\* no uri, empty host and a zero port: the host is reported, not the port
C2_Witness ==
    /\ ~IsNil(ret)
    /\ ~IsNil(arg.connection)
    /\ Field(arg.connection, "uri") = <<>>
    /\ Field(arg.connection, "host") = <<>>
    /\ Field(arg.connection, "port") = <<"0">>
    /\ CodeOf(ret.val) = "NO_HOST"

-----------------------------------------------------------------------------
(* C9 *)

\* the uri with the text through the first "://" removed wherever it occurs,
\* then the text from the first "?" on removed wherever it occurs
StripAnywhere(u) ==
    LET pos1 == Index(u, <<":", "/", "/">>)
        u1 == IF pos1 >= 0 THEN SubSeq(u, pos1 + 4, Len(u)) ELSE u
        pos2 == Index(u1, <<"?">>)
    IN IF pos2 >= 0 THEN SubSeq(u1, 1, pos2) ELSE u1

\* C9: the output uri is the connection's uri with the text up to and
\* including the first "://" removed, also when it is at position 0, and then
\* the text from the first "?" on removed, also when it is at position 0.
C9_StripSchemeAndQuery ==
    ~IsNil(ret) => ret.val["uri"] = StripAnywhere(arg)

-----------------------------------------------------------------------------
(* KafkaMessageQueueFactory *)

\* cref.NewDescriptor(group, type, kind, name, version)
NewDescriptor(group, type, kind, name, version) ==
    [group |-> group, type |-> type, kind |-> kind, name |-> name,
     version |-> version]

\* locator.(*cref.Descriptor) succeeds
IsDescriptor(locator) == "group" \in DOMAIN locator

MatchField(a, b) == a = "*" \/ b = "*" \/ a = b

\* Descriptor.Equals: field-wise match, "*" matching anything
DescriptorMatch(d, locator) ==
    /\ IsDescriptor(locator)
    /\ MatchField(d.group, locator.group)
    /\ MatchField(d.type, locator.type)
    /\ MatchField(d.kind, locator.kind)
    /\ MatchField(d.name, locator.name)
    /\ MatchField(d.version, locator.version)

kafkaQueueDescriptor ==
    NewDescriptor("pip-services", "message-queue", "kafka", "*", "1.0")

\* queues.NewKafkaMessageQueue(name): a queue that was neither configured nor
\* given references
NewKafkaMessageQueue(name) ==
    [name |-> name, configured |-> FALSE, config |-> NilPtr,
     referenced |-> FALSE, references |-> NilPtr]

\* mutant: queue.Configure is called without the nil check of c.Config
CreateQueueUnguarded(f, name) ==
    LET queue == NewKafkaMessageQueue(name)
        configured == [queue EXCEPT !.configured = TRUE, !.config = f.Config]
    IN IF ~IsNil(f.References)
       THEN [configured EXCEPT !.referenced = TRUE,
                               !.references = f.References]
       ELSE configured

\* KafkaMessageQueueFactory.CreateQueue on the factory f
CreateQueue(f, name) ==
    LET queue == NewKafkaMessageQueue(name)
        configured == IF ~IsNil(f.Config)
                      THEN [queue EXCEPT !.configured = TRUE,
                                         !.config = f.Config]
                      ELSE queue
    IN IF ~IsNil(f.References)
       THEN [configured EXCEPT !.referenced = TRUE,
                               !.references = f.References]
       ELSE configured

\* the registered constructor (lines 29-36)
QueueConstructor(f, locator) ==
    LET name == IF IsDescriptor(locator) THEN locator.name ELSE ""
    IN CreateQueue(f, name)

\* Factory.CanCreate: the registered locator that matches, or nil
CanCreate(f, locator) ==
    IF \E i \in 1..Len(f.registrations) :
          DescriptorMatch(f.registrations[i], locator)
    THEN Ref(f.registrations[
             Min({i \in 1..Len(f.registrations) :
                     DescriptorMatch(f.registrations[i], locator)})])
    ELSE NilPtr

\* Factory.Create: the component of the matching constructor, or an error
Create(f, locator) ==
    IF IsNil(CanCreate(f, locator))
    THEN [component |-> NilPtr,
          err |-> Ref([category |-> "Internal", code |-> "CANNOT_CREATE"])]
    ELSE [component |-> Ref(QueueConstructor(f, locator)), err |-> NilPtr]

Locators ==
    {NewDescriptor(g, t, k, n, v) :
        g \in {"pip-services", "other"},
        t \in {"message-queue", "queue-factory"},
        k \in {"kafka", "mqtt"},
        n \in {"test", "*"},
        v \in {"1.0", "2.0"}}
    \cup {[text |-> "not a descriptor"]}

FactoryConfigs == {"queue.topic=a", "queue.topic=b"}
FactoryReferences == {"references"}

\* NewKafkaMessageQueueFactory: no Config, no References, one registration
NewKafkaMessageQueueFactory ==
    /\ factory = [Config |-> NilPtr, References |-> NilPtr,
                  registrations |-> <<kafkaQueueDescriptor>>]
    /\ canResult = NilPtr
    /\ created = NilPtr

\* MessageQueueFactory.Configure
FactoryConfigure ==
    /\ \E c \in FactoryConfigs : factory' = [factory EXCEPT !.Config = Ref(c)]
    /\ UNCHANGED <<canResult, created>>

\* MessageQueueFactory.SetReferences
FactorySetReferences ==
    /\ \E r \in FactoryReferences :
          factory' = [factory EXCEPT !.References = Ref(r)]
    /\ UNCHANGED <<canResult, created>>

\* factory.CanCreate(locator)
CanCreateCall ==
    /\ \E l \in Locators :
          canResult' = Ref([locator |-> l, result |-> CanCreate(factory, l)])
    /\ UNCHANGED <<factory, created>>

\* factory.Create(locator); the factory as it was is kept with the result
CreateCall ==
    /\ \E l \in Locators :
          created' = Ref([locator |-> l, factory |-> factory,
                          result |-> Create(factory, l)])
    /\ UNCHANGED <<factory, canResult>>

InitFactory == NewKafkaMessageQueueFactory /\ ResolverUnused /\ PureUnused

NextFactory ==
    \/ FactoryConfigure /\ UNCHANGED <<resolverVars, pureVars>>
    \/ FactorySetReferences /\ UNCHANGED <<resolverVars, pureVars>>
    \/ CanCreateCall /\ UNCHANGED <<resolverVars, pureVars>>
    \/ CreateCall /\ UNCHANGED <<resolverVars, pureVars>>

SpecFactory == InitFactory /\ [][NextFactory]_vars

-----------------------------------------------------------------------------
(* C8 *)

\* the descriptors pip-services:message-queue:kafka:*:1.0 stands for
IsKafkaQueueDescriptor(l) ==
    /\ IsDescriptor(l)
    /\ l.group = "pip-services" /\ l.type = "message-queue"
    /\ l.kind = "kafka" /\ l.version = "1.0"

\* C8: for a descriptor pip-services:message-queue:kafka:<name>:1.0,
\* CanCreate returns a non-nil result and Create returns no error and a queue
\* named as the descriptor; the queue was configured exactly when the factory
\* held a configuration and was given references exactly when the factory
\* held references.
C8_FactoryCreatesQueue ==
    /\ (~IsNil(canResult) /\ IsKafkaQueueDescriptor(canResult.val.locator))
          => ~IsNil(canResult.val.result)
    /\ (~IsNil(created) /\ IsKafkaQueueDescriptor(created.val.locator)) =>
          LET r == created.val.result
              f == created.val.factory
          IN /\ IsNil(r.err)
             /\ ~IsNil(r.component)
             /\ r.component.val.name = created.val.locator.name
             /\ r.component.val.configured <=> ~IsNil(f.Config)
             /\ r.component.val.referenced <=> ~IsNil(f.References)
             /\ r.component.val.configured =>
                   r.component.val.config = f.Config
             /\ r.component.val.referenced =>
                   r.component.val.references = f.References

\* a queue named "test" created by a configured factory without references
C8_Witness ==
    /\ ~IsNil(created)
    /\ created.val.locator
          = NewDescriptor("pip-services", "message-queue", "kafka", "test", "1.0")
    /\ ~IsNil(created.val.factory.Config)
    /\ IsNil(created.val.factory.References)
    /\ IsNil(created.val.result.err)
    /\ created.val.result.component.val.name = "test"
    /\ created.val.result.component.val.configured
    /\ ~created.val.result.component.val.referenced

=============================================================================
